---- MODULE Spec2Model ----
(***************************************************************************)
(* A model of sboxgates.c: the gate-network state, add_gate and its        *)
(* composers, the recursive create_circuit (phases 1-5 and the Shannon     *)
(* split) as an explicit call stack, and the driver loop of main.          *)
(*                                                                         *)
(* Scaling.  The program works on an 8-bit S-box: 8 input gates, truth     *)
(* tables of 2^8 bits, at most 6 selection bits on a recursion path.  The  *)
(* model keeps the algorithm and scales the width: NumBits input gates,    *)
(* truth tables of 2^NumBits bits and at most NumBits - 2 selection bits,  *)
(* so that, as in the program, a call with every selection slot used has   *)
(* two free input variables left.  A truth table is the set of the         *)
(* positions whose bit is 1.  The S-box of a run is a window of the        *)
(* source's g_sbox_enc reduced to NumBits bits.                            *)
(***************************************************************************)
EXTENDS Integers, Sequences, FiniteSets, TLC

\* Number of S-box input and output bits (8 in the source).
NumBits == 4

\* Number of windows of g_sbox_enc that Init draws the S-box from.
NumWindows == 2

\* Number of times the program is started again after it has ended.
MaxRuns == 1

\* src/sboxgates.c:18
MAX_GATES == 500

\* src/sboxgates.c:20  (uint64_t)-1; the model's sentinel is an integer that
\* is no gate index.
NO_GATE == -1

\* src/sboxgates.c:356,360  the literal 6 = 8 - 2 selection bits.
MaxUsedBits == NumBits - 2

TableBits == 2 ^ NumBits
Positions == 0 .. (TableBits - 1)
Bits == 0 .. (NumBits - 1)

g_sbox_enc ==
  << 156, 242,  20, 193, 142, 203, 178, 101, 151, 122,  96,  23, 146, 249, 120,  65,
       7,  76, 103, 109, 102,  74,  48, 125,  83, 157, 181, 188, 195, 202, 241,   4,
       3, 236, 208,  56, 176, 237, 173, 196, 221,  86,  66, 189, 160, 222,  27, 129,
      85,  68,  90, 228,  80, 220,  67,  99,   9,  92, 116, 207,  14, 171,  29,  61,
     107,   2,  93,  40, 231, 198, 238, 180, 217, 124,  25,  62,  94, 108, 214, 110,
      42,  19, 165,   8, 185,  45, 187, 162, 212, 150,  57, 224, 186, 215, 130,  51,
      13,  95,  38,  22, 254,  34, 175,   0,  17, 200, 158, 136, 139, 161, 123, 135,
      39, 230, 199, 148, 209,  91, 155, 240, 159, 219, 225, 141, 210,  31, 106, 144 >>

(***************************************************************************)
(* Truth tables (ttable) and their operators.                              *)
(***************************************************************************)
TNot(a) == Positions \ a
TAnd(a, b) == a \cap b
TOr(a, b) == a \cup b
TXor(a, b) == (a \ b) \cup (b \ a)

\* _mm256_testz_si256(res, res): all bits zero.
testz(res) == res = {}

ttable_equals(in1, in2) == testz(TXor(in1, in2))

ttable_equals_mask(in1, in2, mask) == testz(TAnd(TXor(in1, in2), mask))

(***************************************************************************)
(* Gates and states.  gates is the used prefix gates[0 .. num_gates-1] of  *)
(* the source's array.                                                     *)
(***************************************************************************)
Gate(type, table, in1, in2) == [type |-> type, table |-> table, in1 |-> in1, in2 |-> in2]

\* The result of a gate-adding call: the state it leaves, the value it
\* returns, whether its assertions held, and the gate indices whose table it
\* read, each with the num_gates of the state it was read from.
Res(st, ret, ok, reads) == [st |-> st, ret |-> ret, ok |-> ok, reads |-> reads]

\* by names the reader: "add" (an add_*_gate function), "split" and "select"
\* (create_circuit's Shannon split and its candidate selection), "main".
RdBy(by, st, gid) == [idx |-> gid, n |-> st.num_gates, by |-> by]

Rd(st, gid) == RdBy("add", st, gid)

\* st->gates[gid].table.  A read outside the used prefix yields a value the
\* program never uses: add_gate returns or asserts before looking at it.
Table(st, gid) == IF gid \in DOMAIN st.gates THEN st.gates[gid].table ELSE {}

\* add_gate with the budget test of line 107 written as >: the variant that
\* C4_BudgetHonored tells from add_gate.
add_gate_budget_gt(st, type, table, gid1, gid2) ==
  IF gid1 = NO_GATE \/ (gid2 = NO_GATE /\ type # "NOT")
  THEN Res(st, NO_GATE, TRUE, {})
  ELSE IF ~(type # "IN" /\ gid1 \in 0 .. (st.num_gates - 1)
            /\ (gid2 \in 0 .. (st.num_gates - 1) \/ type = "NOT"))
  THEN Res(st, NO_GATE, FALSE, {})
  ELSE IF st.num_gates > st.max_gates
  THEN Res(st, NO_GATE, TRUE, {})
  ELSE Res([st EXCEPT !.gates = [i \in 0 .. st.num_gates |->
                                   IF i < st.num_gates THEN st.gates[i]
                                   ELSE Gate(type, table, gid1, gid2)],
                      !.num_gates = st.num_gates + 1],
           st.num_gates, TRUE, {})

\* Lines 99-116.
add_gate(st, type, table, gid1, gid2) ==
  IF gid1 = NO_GATE \/ (gid2 = NO_GATE /\ type # "NOT")
  THEN Res(st, NO_GATE, TRUE, {})
  ELSE IF ~(type # "IN" /\ gid1 \in 0 .. (st.num_gates - 1)
            /\ (gid2 \in 0 .. (st.num_gates - 1) \/ type = "NOT"))
  THEN Res(st, NO_GATE, FALSE, {})
  ELSE IF st.num_gates >= st.max_gates
  THEN Res(st, NO_GATE, TRUE, {})
  ELSE Res([st EXCEPT !.gates = [i \in 0 .. st.num_gates |->
                                   IF i < st.num_gates THEN st.gates[i]
                                   ELSE Gate(type, table, gid1, gid2)],
                      !.num_gates = st.num_gates + 1],
           st.num_gates, TRUE, {})

\* r with the reads rd that the caller made to compute its arguments.
WithReads(r, rd) == [r EXCEPT !.reads = r.reads \cup rd]

\* The result of a chain: first a, then b on a's state.
Then(a, b) == [b EXCEPT !.ok = a.ok /\ b.ok, !.reads = a.reads \cup b.reads]

\* add_not_gate passing gid as the second input too: the variant that
\* C5_StructuralDAG tells from add_not_gate.
add_not_gate_in2(st, gid) ==
  WithReads(add_gate(st, "NOT", TNot(Table(st, gid)), gid, gid), {Rd(st, gid)})

\* Lines 120-122.
add_not_gate(st, gid) ==
  WithReads(add_gate(st, "NOT", TNot(Table(st, gid)), gid, NO_GATE), {Rd(st, gid)})

\* add_and_gate storing the OR of the tables: the variant that
\* C6_TableConsistency tells from add_and_gate.
add_and_gate_or_table(st, gid1, gid2) ==
  WithReads(add_gate(st, "AND", TOr(Table(st, gid1), Table(st, gid2)), gid1, gid2),
            {Rd(st, gid1), Rd(st, gid2)})

\* Lines 124-126.
add_and_gate(st, gid1, gid2) ==
  WithReads(add_gate(st, "AND", TAnd(Table(st, gid1), Table(st, gid2)), gid1, gid2),
            {Rd(st, gid1), Rd(st, gid2)})

add_or_gate(st, gid1, gid2) ==
  WithReads(add_gate(st, "OR", TOr(Table(st, gid1), Table(st, gid2)), gid1, gid2),
            {Rd(st, gid1), Rd(st, gid2)})

add_xor_gate(st, gid1, gid2) ==
  WithReads(add_gate(st, "XOR", TXor(Table(st, gid1), Table(st, gid2)), gid1, gid2),
            {Rd(st, gid1), Rd(st, gid2)})

add_nand_gate(st, gid1, gid2) ==
  LET a == add_and_gate(st, gid1, gid2) IN Then(a, add_not_gate(a.st, a.ret))

add_nor_gate(st, gid1, gid2) ==
  LET a == add_or_gate(st, gid1, gid2) IN Then(a, add_not_gate(a.st, a.ret))

add_xnor_gate(st, gid1, gid2) ==
  LET a == add_xor_gate(st, gid1, gid2) IN Then(a, add_not_gate(a.st, a.ret))

add_or_not_gate(st, gid1, gid2) ==
  LET a == add_not_gate(st, gid1) IN Then(a, add_or_gate(a.st, a.ret, gid2))

add_and_not_gate(st, gid1, gid2) ==
  LET a == add_not_gate(st, gid1) IN Then(a, add_and_gate(a.st, a.ret, gid2))

add_or_3_gate(st, gid1, gid2, gid3) ==
  LET a == add_or_gate(st, gid1, gid2) IN Then(a, add_or_gate(a.st, a.ret, gid3))

add_and_3_gate(st, gid1, gid2, gid3) ==
  LET a == add_and_gate(st, gid1, gid2) IN Then(a, add_and_gate(a.st, a.ret, gid3))

add_xor_3_gate(st, gid1, gid2, gid3) ==
  LET a == add_xor_gate(st, gid1, gid2) IN Then(a, add_xor_gate(a.st, a.ret, gid3))

add_and_or_gate(st, gid1, gid2, gid3) ==
  LET a == add_and_gate(st, gid1, gid2) IN Then(a, add_or_gate(a.st, a.ret, gid3))

add_and_xor_gate(st, gid1, gid2, gid3) ==
  LET a == add_and_gate(st, gid1, gid2) IN Then(a, add_xor_gate(a.st, a.ret, gid3))

add_xor_or_gate(st, gid1, gid2, gid3) ==
  LET a == add_xor_gate(st, gid1, gid2) IN Then(a, add_or_gate(a.st, a.ret, gid3))

add_xor_and_gate(st, gid1, gid2, gid3) ==
  LET a == add_xor_gate(st, gid1, gid2) IN Then(a, add_and_gate(a.st, a.ret, gid3))

add_or_and_gate(st, gid1, gid2, gid3) ==
  LET a == add_or_gate(st, gid1, gid2) IN Then(a, add_and_gate(a.st, a.ret, gid3))

add_or_xor_gate(st, gid1, gid2, gid3) ==
  LET a == add_or_gate(st, gid1, gid2) IN Then(a, add_xor_gate(a.st, a.ret, gid3))

(***************************************************************************)
(* generate_target: the loop shifts the lane right by one and sets its top *)
(* bit, once per table position, so that bit i of the table ends up being  *)
(* bit `bit` of (sbox ? S[i] : i).  S is the S-box of the run.             *)
(***************************************************************************)
BitOf(v, bit) == (v \div (2 ^ bit)) % 2

ShiftRight(var) == {p - 1 : p \in var \ {0}}

RECURSIVE generate_target_loop(_, _, _, _, _)
generate_target_loop(i, var, bit, sbox, S) ==
  IF i = TableBits THEN var
  ELSE generate_target_loop(i + 1,
         ShiftRight(var) \cup (IF BitOf(IF sbox THEN S[i] ELSE i, bit) = 1
                               THEN {TableBits - 1} ELSE {}),
         bit, sbox, S)

generate_target(bit, sbox, S) == generate_target_loop(0, {}, bit, sbox, S)

\* The S-box of window w: TableBits consecutive entries of g_sbox_enc,
\* reduced to NumBits bits.
SBoxWindow(w) == [i \in Positions |-> g_sbox_enc[w * TableBits + i + 1] % TableBits]

(***************************************************************************)
(* create_circuit, phases 1-5: the scans of lines 201-348.  A scan returns *)
(* at its first match with the result of the gate-adding call it makes.    *)
(***************************************************************************)
Miss(st) == [hit |-> FALSE, st |-> st, ret |-> NO_GATE, ok |-> TRUE, reads |-> {}]

Hit(r) == [hit |-> TRUE, st |-> r.st, ret |-> r.ret, ok |-> r.ok, reads |-> r.reads]

\* Lines 201-205.
RECURSIVE phase1(_, _, _, _)
phase1(st, target, mask, i) ==
  IF i >= st.num_gates THEN Miss(st)
  ELSE IF ttable_equals_mask(target, st.gates[i].table, mask)
  THEN Hit(Res(st, i, TRUE, {}))
  ELSE phase1(st, target, mask, i + 1)

\* Lines 210-214.
RECURSIVE phase2(_, _, _, _)
phase2(st, target, mask, i) ==
  IF i >= st.num_gates THEN Miss(st)
  ELSE IF ttable_equals_mask(target, TNot(st.gates[i].table), mask)
  THEN Hit(add_not_gate(st, i))
  ELSE phase2(st, target, mask, i + 1)

\* The inner loop of phase 3 without its XOR test: the variant that
\* C7_PhaseOrder tells from phase3_k.
RECURSIVE phase3_k_no_xor(_, _, _, _, _)
phase3_k_no_xor(st, target, mask, i, k) ==
  IF k >= st.num_gates THEN Miss(st)
  ELSE LET mtarget == TAnd(target, mask)
           ti == TAnd(st.gates[i].table, mask)
           tk == TAnd(st.gates[k].table, mask)
       IN IF ttable_equals(mtarget, TOr(ti, tk)) THEN Hit(add_or_gate(st, i, k))
          ELSE IF ttable_equals(mtarget, TAnd(ti, tk)) THEN Hit(add_and_gate(st, i, k))
          ELSE phase3_k_no_xor(st, target, mask, i, k + 1)

\* Lines 222-233: the inner loop over k.
RECURSIVE phase3_k(_, _, _, _, _)
phase3_k(st, target, mask, i, k) ==
  IF k >= st.num_gates THEN Miss(st)
  ELSE LET mtarget == TAnd(target, mask)
           ti == TAnd(st.gates[i].table, mask)
           tk == TAnd(st.gates[k].table, mask)
       IN IF ttable_equals(mtarget, TOr(ti, tk)) THEN Hit(add_or_gate(st, i, k))
          ELSE IF ttable_equals(mtarget, TAnd(ti, tk)) THEN Hit(add_and_gate(st, i, k))
          ELSE IF ttable_equals(mtarget, TXor(ti, tk)) THEN Hit(add_xor_gate(st, i, k))
          ELSE phase3_k(st, target, mask, i, k + 1)

\* Lines 219-234.
RECURSIVE phase3(_, _, _, _)
phase3(st, target, mask, i) ==
  IF i >= st.num_gates THEN Miss(st)
  ELSE LET r == phase3_k(st, target, mask, i, i + 1)
       IN IF r.hit THEN r ELSE phase3(st, target, mask, i + 1)

\* Lines 242-265: the inner loop over k.
RECURSIVE phase4_k(_, _, _, _, _)
phase4_k(st, target, mask, i, k) ==
  IF k >= st.num_gates THEN Miss(st)
  ELSE LET ti == st.gates[i].table
           tk == st.gates[k].table
       IN IF ttable_equals_mask(target, TNot(TOr(ti, tk)), mask)
          THEN Hit(add_nor_gate(st, i, k))
          ELSE IF ttable_equals_mask(target, TNot(TAnd(ti, tk)), mask)
          THEN Hit(add_nand_gate(st, i, k))
          ELSE IF ttable_equals_mask(target, TNot(TXor(ti, tk)), mask)
          THEN Hit(add_xnor_gate(st, i, k))
          ELSE IF ttable_equals_mask(target, TOr(TNot(ti), tk), mask)
          THEN Hit(add_or_not_gate(st, i, k))
          ELSE IF ttable_equals_mask(target, TOr(TNot(tk), ti), mask)
          THEN Hit(add_or_not_gate(st, k, i))
          ELSE IF ttable_equals_mask(target, TAnd(TNot(ti), tk), mask)
          THEN Hit(add_and_not_gate(st, i, k))
          ELSE IF ttable_equals_mask(target, TAnd(TNot(tk), ti), mask)
          THEN Hit(add_and_not_gate(st, k, i))
          ELSE phase4_k(st, target, mask, i, k + 1)

\* Lines 240-266.
RECURSIVE phase4(_, _, _, _)
phase4(st, target, mask, i) ==
  IF i >= st.num_gates THEN Miss(st)
  ELSE LET r == phase4_k(st, target, mask, i, i + 1)
       IN IF r.hit THEN r ELSE phase4(st, target, mask, i + 1)

\* Lines 276-345: the tests on one triple i < k < m.
phase5_triple(st, mtarget, ti, tk, tm, i, k, m) ==
  LET iandk == TAnd(ti, tk)
      iork == TOr(ti, tk)
      ixork == TXor(ti, tk)
      iandm == TAnd(ti, tm)
      kandm == TAnd(tk, tm)
      ixorm == TXor(ti, tm)
      kxorm == TXor(tk, tm)
      iorm == TOr(ti, tm)
      korm == TOr(tk, tm)
  IN IF ttable_equals(mtarget, TAnd(iandk, tm)) THEN Hit(add_and_3_gate(st, i, k, m))
     ELSE IF ttable_equals(mtarget, TOr(iandk, tm)) THEN Hit(add_and_or_gate(st, i, k, m))
     ELSE IF ttable_equals(mtarget, TXor(iandk, tm)) THEN Hit(add_and_xor_gate(st, i, k, m))
     ELSE IF ttable_equals(mtarget, TOr(iork, tm)) THEN Hit(add_or_3_gate(st, i, k, m))
     ELSE IF ttable_equals(mtarget, TAnd(iork, tm)) THEN Hit(add_or_and_gate(st, i, k, m))
     ELSE IF ttable_equals(mtarget, TXor(iork, tm)) THEN Hit(add_or_xor_gate(st, i, k, m))
     ELSE IF ttable_equals(mtarget, TXor(ixork, tm)) THEN Hit(add_xor_3_gate(st, i, k, m))
     ELSE IF ttable_equals(mtarget, TOr(ixork, tm)) THEN Hit(add_xor_or_gate(st, i, k, m))
     ELSE IF ttable_equals(mtarget, TAnd(ixork, tm)) THEN Hit(add_xor_and_gate(st, i, k, m))
     ELSE IF ttable_equals(mtarget, TOr(iandm, tk)) THEN Hit(add_and_or_gate(st, i, m, k))
     ELSE IF ttable_equals(mtarget, TXor(iandm, tk)) THEN Hit(add_and_xor_gate(st, i, m, k))
     ELSE IF ttable_equals(mtarget, TOr(kandm, ti)) THEN Hit(add_and_or_gate(st, k, m, i))
     ELSE IF ttable_equals(mtarget, TXor(kandm, ti)) THEN Hit(add_and_xor_gate(st, k, m, i))
     ELSE IF ttable_equals(mtarget, TOr(ixorm, tk)) THEN Hit(add_xor_or_gate(st, i, m, k))
     ELSE IF ttable_equals(mtarget, TAnd(ixorm, tk)) THEN Hit(add_xor_and_gate(st, i, m, k))
     ELSE IF ttable_equals(mtarget, TOr(kxorm, ti)) THEN Hit(add_xor_or_gate(st, k, m, i))
     ELSE IF ttable_equals(mtarget, TAnd(kxorm, ti)) THEN Hit(add_xor_and_gate(st, k, m, i))
     ELSE IF ttable_equals(mtarget, TAnd(iorm, tk)) THEN Hit(add_or_and_gate(st, i, m, k))
     ELSE IF ttable_equals(mtarget, TXor(iorm, tk)) THEN Hit(add_or_xor_gate(st, i, m, k))
     ELSE IF ttable_equals(mtarget, TAnd(korm, ti)) THEN Hit(add_or_and_gate(st, k, m, i))
     ELSE IF ttable_equals(mtarget, TXor(korm, ti)) THEN Hit(add_or_xor_gate(st, k, m, i))
     ELSE Miss(st)

\* Lines 275-346: the innermost loop over m.
RECURSIVE phase5_m(_, _, _, _, _, _)
phase5_m(st, target, mask, i, k, m) ==
  IF m >= st.num_gates THEN Miss(st)
  ELSE LET r == phase5_triple(st, TAnd(target, mask),
                              TAnd(st.gates[i].table, mask),
                              TAnd(st.gates[k].table, mask),
                              TAnd(st.gates[m].table, mask), i, k, m)
       IN IF r.hit THEN r ELSE phase5_m(st, target, mask, i, k, m + 1)

\* Lines 270-347: the loop over k.
RECURSIVE phase5_k(_, _, _, _, _)
phase5_k(st, target, mask, i, k) ==
  IF k >= st.num_gates THEN Miss(st)
  ELSE LET r == phase5_m(st, target, mask, i, k, k + 1)
       IN IF r.hit THEN r ELSE phase5_k(st, target, mask, i, k + 1)

\* Lines 268-348.
RECURSIVE phase5(_, _, _, _)
phase5(st, target, mask, i) ==
  IF i >= st.num_gates THEN Miss(st)
  ELSE LET r == phase5_k(st, target, mask, i, i + 1)
       IN IF r.hit THEN r ELSE phase5(st, target, mask, i + 1)

(***************************************************************************)
(* The program state.                                                      *)
(*   g_target       the global table of the S-box output targets           *)
(*   default_state  main's default_state                                   *)
(*   output         main's loop variable                                   *)
(*   dpc            where the process is: "start" (not yet initialised),   *)
(*                  "loop" (top of the driver loop), "call" (inside        *)
(*                  create_circuit), "done" (returned 0), "abort" (an      *)
(*                  assertion failed)                                      *)
(*   stack          the active create_circuit calls, outermost first       *)
(*   disk           the state files written by save_state, by file name    *)
(*   runs           how many times the program has been started again      *)
(*   reads          the gate-table reads of the last step (add_gate's      *)
(*                  callers and the Shannon split), for the index claims   *)
(*   hist           num_gates of the outputs synthesized in this run       *)
(***************************************************************************)
VARIABLES g_target, default_state, output, dpc, stack, disk, runs, reads, hist

vars == <<g_target, default_state, output, dpc, stack, disk, runs, reads, hist>>

AllOnes == Positions

\* A state whose only initialised field is num_gates = 0 (lines 364-365), and
\* the value of the state variables that hold nothing yet.
NoState == [max_gates |-> 0, num_gates |-> 0, outputs |-> <<>>, gates |-> <<>>]

\* Lines 530-539.
FreshState ==
  [max_gates |-> MAX_GATES,
   num_gates |-> NumBits,
   outputs |-> [o \in Bits |-> NO_GATE],
   gates |-> [i \in Bits |->
                Gate("IN", generate_target(i, FALSE, [p \in Positions |-> p]),
                     NO_GATE, NO_GATE)]]

Range(f) == {f[x] : x \in DOMAIN f}

\* The frame of a create_circuit call that starts.  st0 (the state at
\* entry), phase (the phase that returned) and cands (for each bit of the
\* split that was not skipped: which multiplexer was taken, whether each was
\* built, their sizes, and whether the one taken replaced best) record what
\* happened and are read by no step.
NewFrame(st, target, mask, inbits) ==
  [pc |-> "p1", st |-> st, target |-> target, mask |-> mask, inbits |-> inbits,
   ret |-> NO_GATE, bit |-> 0,
   nst_and |-> NoState, nst_or |-> NoState,
   fb |-> NO_GATE, fd |-> NO_GATE, mux_out_and |-> NO_GATE, mux_out_or |-> NO_GATE,
   best |-> NoState,
   st0 |-> st, phase |-> 0, cands |-> <<>>]

Depth == Len(stack)
Top == stack[Depth]
Caller == stack[Depth - 1]

Running == dpc = "call" /\ Depth >= 1
Returned == Running /\ Top.pc = "ret"

\* A failed assertion ends the process where it is.
Abort(rd) ==
  /\ dpc' = "abort"
  /\ reads' = rd
  /\ UNCHANGED <<g_target, default_state, output, stack, disk, runs, hist>>

\* A step of the innermost call that leaves it in frame f, if the step's
\* assertions hold.
TopStep(f, ok, rd) ==
  IF ok
  THEN /\ stack' = [stack EXCEPT ![Depth] = f]
       /\ reads' = rd
       /\ UNCHANGED <<g_target, default_state, output, dpc, disk, runs, hist>>
  ELSE Abort(rd)

\* The callee returns to its caller, which continues in frame f.
ReturnStep(f, ok, rd) ==
  IF ok
  THEN /\ stack' = [SubSeq(stack, 1, Depth - 1) EXCEPT ![Depth - 1] = f]
       /\ reads' = rd
       /\ UNCHANGED <<g_target, default_state, output, dpc, disk, runs, hist>>
  ELSE Abort(rd)

\* The callee returns and the caller calls create_circuit again.
ReturnCallStep(f, callee, rd) ==
  /\ stack' = Append([SubSeq(stack, 1, Depth - 1) EXCEPT ![Depth - 1] = f], callee)
  /\ reads' = rd
  /\ UNCHANGED <<g_target, default_state, output, dpc, disk, runs, hist>>

\* A phase of the scan: return its result on a match, go to the next phase
\* otherwise.
PhaseStep(r, k, next) ==
  IF r.hit
  THEN TopStep([Top EXCEPT !.pc = "ret", !.st = r.st, !.ret = r.ret, !.phase = k],
               r.ok, r.reads)
  ELSE TopStep([Top EXCEPT !.pc = next], TRUE, {})

Phase1Reuse ==
  /\ Running /\ Top.pc = "p1"
  /\ PhaseStep(phase1(Top.st, Top.target, Top.mask, 0), 1, "p2")

Phase2Inverse ==
  /\ Running /\ Top.pc = "p2"
  /\ PhaseStep(phase2(Top.st, Top.target, Top.mask, 0), 2, "p3")

Phase3Pair ==
  /\ Running /\ Top.pc = "p3"
  /\ PhaseStep(phase3(Top.st, Top.target, Top.mask, 0), 3, "p4")

Phase4PairInv ==
  /\ Running /\ Top.pc = "p4"
  /\ PhaseStep(phase4(Top.st, Top.target, Top.mask, 0), 4, "p5")

Phase5Triple ==
  /\ Running /\ Top.pc = "p5"
  /\ PhaseStep(phase5(Top.st, Top.target, Top.mask, 0), 5, "split")

(***************************************************************************)
(* The Shannon split, lines 353-427.  inbits is the used prefix of the     *)
(* source's array (the entries before the first -1).                       *)
(***************************************************************************)
\* Lines 354-365: bitp, the assertion, best.num_gates = 0.
SplitInit ==
  /\ Running /\ Top.pc = "split"
  /\ TopStep([Top EXCEPT !.pc = "bit", !.bit = 0, !.best = NoState],
             Len(Top.inbits) < MaxUsedBits, {})

next_inbits(f) == Append(f.inbits, f.bit)

fsel(f) == f.st.gates[f.bit].table

\* Lines 369-376 without the comparison: the variant that C12_SplitsWithinUsedBits
\* tells from skip.
skip_never(inbits, bit) == FALSE

\* Lines 369-376: whether bit is among the bits already used for selection.
skip(inbits, bit) == bit \in Range(inbits)

\* Lines 368-379: a bit already used for selection is skipped.
SplitSkip ==
  /\ Running /\ Top.pc = "bit" /\ Top.bit < NumBits
  /\ skip(Top.inbits, Top.bit)
  /\ TopStep([Top EXCEPT !.bit = Top.bit + 1], TRUE, {})

\* Lines 382-386: the AND multiplexer's first sub-circuit.
SplitCallFb ==
  /\ Running /\ Top.pc = "bit" /\ Top.bit < NumBits
  /\ ~skip(Top.inbits, Top.bit)
  /\ stack' = Append([stack EXCEPT ![Depth] = [Top EXCEPT !.pc = "fb", !.nst_and = Top.st]],
                     NewFrame(Top.st, TAnd(Top.target, TNot(fsel(Top))),
                              TAnd(Top.mask, TNot(fsel(Top))), next_inbits(Top)))
  /\ reads' = {RdBy("split", Top.st, Top.bit)}
  /\ UNCHANGED <<g_target, default_state, output, dpc, disk, runs, hist>>

\* Lines 386-390: fb is a gate; the second sub-circuit is called.
RetFbCallFc ==
  /\ Returned /\ Depth >= 2 /\ Caller.pc = "fb" /\ Top.ret # NO_GATE
  /\ LET f == [Caller EXCEPT !.pc = "fc", !.nst_and = Top.st, !.fb = Top.ret]
     IN ReturnCallStep(f,
          NewFrame(f.nst_and, TXor(Table(f.nst_and, f.fb), f.target),
                   TAnd(f.mask, fsel(f)), next_inbits(f)),
          {RdBy("split", f.nst_and, f.fb)})

\* Lines 386-388: fb is NO_GATE; mux_out_and stays NO_GATE.
RetFbNone ==
  /\ Returned /\ Depth >= 2 /\ Caller.pc = "fb" /\ Top.ret = NO_GATE
  /\ ReturnStep([Caller EXCEPT !.pc = "or", !.nst_and = Top.st, !.fb = NO_GATE,
                               !.mux_out_and = NO_GATE], TRUE, {})

\* Lines 389-392: fc returned; andg and mux_out_and are added.
RetFc ==
  /\ Returned /\ Depth >= 2 /\ Caller.pc = "fc"
  /\ LET andg == add_and_gate(Top.st, Top.ret, Caller.bit)
         mux == Then(andg, add_xor_gate(andg.st, Caller.fb, andg.ret))
     IN ReturnStep([Caller EXCEPT !.pc = "or", !.nst_and = mux.st,
                                  !.mux_out_and = mux.ret], mux.ok, mux.reads)

\* Lines 395-396: the OR multiplexer's first sub-circuit.
SplitCallFd ==
  /\ Running /\ Top.pc = "or"
  /\ stack' = Append([stack EXCEPT ![Depth] = [Top EXCEPT !.pc = "fd", !.nst_or = Top.st]],
                     NewFrame(Top.st, TAnd(TNot(Top.target), fsel(Top)),
                              TAnd(Top.mask, fsel(Top)), next_inbits(Top)))
  /\ reads' = {}
  /\ UNCHANGED <<g_target, default_state, output, dpc, disk, runs, hist>>

\* Lines 396-400: fd is a gate; the second sub-circuit is called.
RetFdCallFe ==
  /\ Returned /\ Depth >= 2 /\ Caller.pc = "fd" /\ Top.ret # NO_GATE
  /\ LET f == [Caller EXCEPT !.pc = "fe", !.nst_or = Top.st, !.fd = Top.ret]
     IN ReturnCallStep(f,
          NewFrame(f.nst_or, TXor(Table(f.nst_or, f.fd), f.target),
                   TAnd(f.mask, TNot(fsel(f))), next_inbits(f)),
          {RdBy("split", f.nst_or, f.fd)})

\* The values an uninitialised mux_out_or (line 397) is drawn from: NO_GATE,
\* the indices of the gates of nst_or, and nst_or.num_gates, which stands for
\* every index past the used prefix.
Uninitialised(nst) == {NO_GATE} \cup (0 .. nst.num_gates)

\* Lines 396-398: fd is NO_GATE; mux_out_or is never assigned and holds
\* whatever its storage held.
RetFdNone ==
  /\ Returned /\ Depth >= 2 /\ Caller.pc = "fd" /\ Top.ret = NO_GATE
  /\ \E garbage \in Uninitialised(Top.st) :
       ReturnStep([Caller EXCEPT !.pc = "sel", !.nst_or = Top.st, !.fd = NO_GATE,
                                 !.mux_out_or = garbage], TRUE, {})

\* Lines 399-402: fe returned; org and mux_out_or are added.
RetFe ==
  /\ Returned /\ Depth >= 2 /\ Caller.pc = "fe"
  /\ LET org == add_or_gate(Top.st, Top.ret, Caller.bit)
         mux == Then(org, add_xor_gate(org.st, Caller.fd, org.ret))
     IN ReturnStep([Caller EXCEPT !.pc = "sel", !.nst_or = mux.st,
                                  !.mux_out_or = mux.ret], mux.ok, mux.reads)

\* Line 405.
both_failed(mux_out_and, mux_out_or) == mux_out_and = NO_GATE /\ mux_out_or = NO_GATE

\* Line 410 with <= for <: the variant that C3_SelectionRule tells from
\* take_and.
take_and_on_tie(mux_out_and, mux_out_or, nst_and, nst_or) ==
  mux_out_or = NO_GATE \/ (mux_out_and # NO_GATE /\ nst_and.num_gates <= nst_or.num_gates)

\* Line 410: whether the AND multiplexer's state is taken.
take_and(mux_out_and, mux_out_or, nst_and, nst_or) ==
  mux_out_or = NO_GATE \/ (mux_out_and # NO_GATE /\ nst_and.num_gates < nst_or.num_gates)

\* Line 418: whether nst replaces best.
replaces_best(best, nst) == best.num_gates = 0 \/ nst.num_gates < best.num_gates

\* Lines 405-421: the choice between the two multiplexers, the assertion
\* and the update of best.  The assertion reads gates[mux_out]; for an index
\* past the used prefix the table read is arbitrary, and so is the outcome.
Select ==
  /\ Running /\ Top.pc = "sel"
  /\ IF both_failed(Top.mux_out_and, Top.mux_out_or)
     THEN TopStep([Top EXCEPT !.pc = "bit", !.bit = Top.bit + 1], TRUE, {})
     ELSE LET and == take_and(Top.mux_out_and, Top.mux_out_or, Top.nst_and, Top.nst_or)
              nst == IF and THEN Top.nst_and ELSE Top.nst_or
              mux_out == IF and THEN Top.mux_out_and ELSE Top.mux_out_or
              cand == [bit |-> Top.bit, and |-> and, n |-> nst.num_gates,
                       and_ok |-> Top.mux_out_and # NO_GATE,
                       or_ok |-> Top.fd # NO_GATE /\ Top.mux_out_or # NO_GATE,
                       n_and |-> Top.nst_and.num_gates,
                       n_or |-> Top.nst_or.num_gates,
                       kept |-> replaces_best(Top.best, nst)]
          IN \E arbitrary \in BOOLEAN :
               TopStep([Top EXCEPT !.pc = "bit", !.bit = Top.bit + 1,
                                   !.best = IF replaces_best(Top.best, nst)
                                            THEN nst ELSE Top.best,
                                   !.cands = Append(Top.cands, cand)],
                       IF mux_out \in DOMAIN nst.gates
                       THEN ttable_equals_mask(Top.target, nst.gates[mux_out].table,
                                               Top.mask)
                       ELSE arbitrary,
                       {RdBy("select", nst, mux_out)})

\* Lines 422-427 with *st = best ahead of the test of best.num_gates: the
\* variant that C10_FailureKeepsEntryGates tells from split_result.
split_result_copies_best(st, best) ==
  [st |-> best, ret |-> IF best.num_gates = 0 THEN NO_GATE ELSE best.num_gates - 1]

\* Lines 422-427: the state left to the caller and the value returned.
split_result(st, best) ==
  IF best.num_gates = 0
  THEN [st |-> st, ret |-> NO_GATE]
  ELSE [st |-> best, ret |-> best.num_gates - 1]

\* Lines 422-427.
SplitDone ==
  /\ Running /\ Top.pc = "bit" /\ Top.bit = NumBits
  /\ LET r == split_result(Top.st, Top.best)
     IN TopStep([Top EXCEPT !.pc = "ret", !.st = r.st, !.ret = r.ret, !.phase = 6],
                TRUE, {})

(***************************************************************************)
(* main.  Lines 521-523 fill g_target before anything else; Init holds it. *)
(***************************************************************************)
\* Lines 527-539: no file argument.
StartFresh ==
  /\ dpc = "start"
  /\ default_state' = FreshState
  /\ output' = 0
  /\ dpc' = "loop"
  /\ reads' = {}
  /\ UNCHANGED <<g_target, stack, disk, runs, hist>>

\* Lines 540-557: the state is read from a file, and max_gates is reset.
StartLoad ==
  /\ dpc = "start"
  /\ \E file \in disk :
       default_state' = [file.st EXCEPT !.max_gates = MAX_GATES]
  /\ output' = 0
  /\ dpc' = "loop"
  /\ reads' = {}
  /\ UNCHANGED <<g_target, stack, disk, runs, hist>>

\* Lines 568-571.
DriverSkip ==
  /\ dpc = "loop" /\ output < NumBits
  /\ default_state.outputs[output] # NO_GATE
  /\ output' = output + 1
  /\ reads' = {}
  /\ UNCHANGED <<g_target, default_state, dpc, stack, disk, runs, hist>>

\* Lines 573-575: st = default_state; create_circuit(&st, ...).
DriverCall ==
  /\ dpc = "loop" /\ output < NumBits
  /\ default_state.outputs[output] = NO_GATE
  /\ stack' = <<NewFrame(default_state, g_target[output], AllOnes, <<>>)>>
  /\ dpc' = "call"
  /\ reads' = {}
  /\ UNCHANGED <<g_target, default_state, output, disk, runs, hist>>

\* Lines 576-579.
DriverRetNone ==
  /\ Returned /\ Depth = 1 /\ Top.ret = NO_GATE
  /\ stack' = <<>>
  /\ output' = output + 1
  /\ dpc' = "loop"
  /\ reads' = {}
  /\ UNCHANGED <<g_target, default_state, disk, runs, hist>>

\* Lines 581-597: the name of the state file.
file_name(st) ==
  LET assigned == {i \in Bits : st.outputs[i] # NO_GATE}
  IN <<Cardinality(assigned), st.num_gates - (NumBits - 1), assigned>>

\* Line 598 with lines 493-503: the file of that name is (over)written.
save_state(name, st) == {f \in disk : f.name # name} \cup {[name |-> name, st |-> st]}

\* Lines 598-602 with default_state = st added: the variant that
\* C2_DefaultStateKeepsItsGates tells from next_default_state.
next_default_state_takes_st(ds, st) ==
  [st EXCEPT !.max_gates = IF ds.max_gates > st.num_gates THEN st.num_gates
                           ELSE ds.max_gates]

\* Lines 599-602 without the assignment of line 600: the variant that
\* C8_BudgetTightens tells from next_default_state.
next_default_state_keeps_max(ds, st) == ds

\* Lines 599-602: what default_state is after a successful output.
next_default_state(ds, st) ==
  IF ds.max_gates > st.num_gates THEN [ds EXCEPT !.max_gates = st.num_gates] ELSE ds

\* Lines 575-602 for a gate returned.
DriverRetSave ==
  /\ Returned /\ Depth = 1 /\ Top.ret # NO_GATE
  /\ LET st == [Top.st EXCEPT !.outputs[output] = Top.ret]
     IN IF ttable_equals(g_target[output], Table(st, Top.ret))
        THEN /\ disk' = save_state(file_name(st), st)
             /\ default_state' = next_default_state(default_state, st)
             /\ hist' = Append(hist, st.num_gates)
             /\ stack' = <<>>
             /\ output' = output + 1
             /\ dpc' = "loop"
             /\ reads' = {RdBy("main", st, Top.ret)}
             /\ UNCHANGED <<g_target, runs>>
        ELSE Abort({RdBy("main", st, Top.ret)})

\* Lines 567, 605-607.
DriverDone ==
  /\ dpc = "loop" /\ output = NumBits
  /\ dpc' = "done"
  /\ reads' = {}
  /\ UNCHANGED <<g_target, default_state, output, stack, disk, runs, hist>>

\* The process has ended; the program is started again.
Restart ==
  /\ dpc \in {"done", "abort"}
  /\ runs < MaxRuns
  /\ runs' = runs + 1
  /\ dpc' = "start"
  /\ default_state' = NoState
  /\ output' = 0
  /\ stack' = <<>>
  /\ hist' = <<>>
  /\ reads' = {}
  /\ UNCHANGED <<g_target, disk>>

Init ==
  /\ \E w \in 0 .. (NumWindows - 1) :
       g_target = [o \in Bits |-> generate_target(o, TRUE, SBoxWindow(w))]
  /\ default_state = NoState
  /\ output = 0
  /\ dpc = "start"
  /\ stack = <<>>
  /\ disk = {}
  /\ runs = 0
  /\ reads = {}
  /\ hist = <<>>

Next ==
  \/ StartFresh
  \/ StartLoad
  \/ DriverSkip
  \/ DriverCall
  \/ DriverRetNone
  \/ DriverRetSave
  \/ DriverDone
  \/ Restart
  \/ Phase1Reuse
  \/ Phase2Inverse
  \/ Phase3Pair
  \/ Phase4PairInv
  \/ Phase5Triple
  \/ SplitInit
  \/ SplitSkip
  \/ SplitCallFb
  \/ RetFbCallFc
  \/ RetFbNone
  \/ RetFc
  \/ SplitCallFd
  \/ RetFdCallFe
  \/ RetFdNone
  \/ RetFe
  \/ Select
  \/ SplitDone

Spec == Init /\ [][Next]_vars

(***************************************************************************)
(* What the claims speak of.                                               *)
(***************************************************************************)
Frames == {stack[d] : d \in 1 .. Depth}

\* Every state record the program holds: main's default_state, the state of
\* each active call, its forked copies nst_and and nst_or, its best, and the
\* state files.  A record with num_gates = 0 holds no state yet.
LiveStates ==
  {x \in {default_state}
         \cup {f.st : f \in Frames} \cup {f.nst_and : f \in Frames}
         \cup {f.nst_or : f \in Frames} \cup {f.best : f \in Frames}
         \cup {file.st : file \in disk} : x.num_gates # 0}

GateMatches(st, g, target, mask) ==
  /\ g \in 0 .. (st.num_gates - 1)
  /\ ttable_equals_mask(target, st.gates[g].table, mask)

\* C1: whenever create_circuit returns a gate g other than NO_GATE, g is a
\* gate of the resulting state whose table agrees with the target under the
\* mask; the assertion after the candidate selection (line 417) never fails;
\* and in the driver the gate stored in outputs[o] has the full target table
\* of output o (the assertion of line 580 never fails, every saved state has
\* it).
C1_ReturnedGateMatchesTarget ==
  /\ \A f \in Frames :
       (f.pc = "ret" /\ f.ret # NO_GATE) => GateMatches(f.st, f.ret, f.target, f.mask)
  /\ ~(dpc = "abort" /\ Depth >= 1 /\ Top.pc \in {"sel", "ret"})
  /\ \A file \in disk : \A o \in Bits :
       file.st.outputs[o] # NO_GATE
         => GateMatches(file.st, file.st.outputs[o], g_target[o], AllOnes)

\* The part of a state that the driver's tightening of max_gates leaves.
Untightened(st) == [st EXCEPT !.max_gates = 0]

InRun == dpc \in {"loop", "call"}

\* C2 as claimed: when the synthesis of an output returns a gate, the
\* resulting state (its gates and its outputs[o] assignment) becomes
\* default_state, the starting state of the next output.
C2_ResultBecomesStartingState ==
  [][(Returned /\ Depth = 1 /\ Top.ret # NO_GATE /\ dpc' = "loop")
       => Untightened(default_state')
            = Untightened([Top.st EXCEPT !.outputs[output] = Top.ret])]_vars

\* C2 as amended: during a run, default_state changes in max_gates only, so
\* every output of the run is synthesized from the gates and the outputs the
\* run started with; the result of a synthesis goes to the state file alone.
C2_DefaultStateKeepsItsGates ==
  [][InRun =>
       /\ Untightened(default_state') = Untightened(default_state)
       /\ (dpc' = "call" /\ Depth = 0) => stack'[1].st = default_state'
       /\ (Returned /\ Depth = 1 /\ Top.ret # NO_GATE /\ dpc' = "loop")
            => [name |-> file_name([Top.st EXCEPT !.outputs[output] = Top.ret]),
                st |-> [Top.st EXCEPT !.outputs[output] = Top.ret]] \in disk']_vars

\* C2's case: an output was synthesized with new gates, and the synthesis of
\* a later output of the same run starts without them.
C2_Witness ==
  /\ dpc = "call" /\ Depth = 1 /\ Top.pc = "p1"
  /\ hist # <<>>
  /\ hist[Len(hist)] > Top.st.num_gates

\* C4: num_gates <= max_gates <= MAX_GATES in every state record (every
\* forked copy of the recursion, default_state after each tightening), and no
\* gate sits at an index >= max_gates.
C4_BudgetHonored ==
  \A st \in LiveStates :
    /\ st.num_gates <= st.max_gates
    /\ st.max_gates <= MAX_GATES
    /\ DOMAIN st.gates = 0 .. (st.num_gates - 1)
    /\ \A i \in DOMAIN st.gates : i < st.max_gates

\* C4's case: add_gate refused a gate in a forked copy that is full under a
\* tightened budget.
C4_Witness ==
  /\ Returned /\ Depth >= 2
  /\ Top.ret = NO_GATE /\ Top.phase \in 2 .. 5
  /\ Top.st.num_gates = Top.st.max_gates
  /\ Top.st.max_gates < MAX_GATES

WellFormedGate(st, i) ==
  LET g == st.gates[i]
  IN IF i < NumBits
     THEN g.type = "IN" /\ g.in1 = NO_GATE /\ g.in2 = NO_GATE
     ELSE \/ g.type = "NOT" /\ g.in1 \in 0 .. (i - 1) /\ g.in2 = NO_GATE
          \/ /\ g.type \in {"AND", "OR", "XOR"}
             /\ g.in1 \in 0 .. (i - 1)
             /\ g.in2 \in 0 .. (i - 1)

\* C5: in every state record the first NumBits gates are the inputs, with
\* in1 = in2 = NO_GATE, and every later gate is a NOT of an earlier gate with
\* in2 = NO_GATE or an AND, OR or XOR of two earlier gates.
C5_StructuralDAG ==
  \A st \in LiveStates :
    /\ st.num_gates >= NumBits
    /\ \A i \in 0 .. (st.num_gates - 1) : WellFormedGate(st, i)

\* C5's case: a state with a NOT gate and a two-input gate that has a
\* non-input gate as an input.
C5_Witness ==
  \E st \in LiveStates :
    /\ \E i \in DOMAIN st.gates : st.gates[i].type = "NOT"
    /\ \E i \in DOMAIN st.gates :
         st.gates[i].type \in {"AND", "OR", "XOR"} /\ st.gates[i].in1 >= NumBits

OperatorTable(st, i) ==
  LET g == st.gates[i]
  IN CASE g.type = "NOT" -> Positions \ st.gates[g.in1].table
       [] g.type = "AND" -> st.gates[g.in1].table \cap st.gates[g.in2].table
       [] g.type = "OR" -> st.gates[g.in1].table \cup st.gates[g.in2].table
       [] g.type = "XOR" ->
            {p \in Positions : (p \in st.gates[g.in1].table) # (p \in st.gates[g.in2].table)}
       [] OTHER -> {p \in Positions : BitOf(p, i) = 1}

\* C6: the table of every gate that is not an input is its operator applied
\* to the full tables of its inputs (and an input's table is its variable).
C6_TableConsistency ==
  \A st \in LiveStates :
    \A i \in 0 .. (st.num_gates - 1) : st.gates[i].table = OperatorTable(st, i)

\* C6's case: a call on a masked sub-problem of the Shannon split returned a
\* gate it appended, whose table equals the target under the mask only.
C6_Witness ==
  /\ Returned /\ Depth >= 2
  /\ Top.mask # AllOnes
  /\ Top.ret # NO_GATE /\ Top.ret >= Top.st0.num_gates
  /\ ~ttable_equals(Top.target, Top.st.gates[Top.ret].table)

Min(S) == CHOOSE x \in S : \A y \in S : x <= y

CandSizes(f) == {f.cands[j].n : j \in DOMAIN f.cands}

InSplitLoop(f) == f.pc \in {"bit", "fb", "fc", "or", "fd", "fe", "sel"}

\* C3 as claimed: the state that replaces the caller's state has the
\* smallest num_gates among all multiplexers built, over the bits and the two
\* variants; and when both variants of a bit are built with equal num_gates
\* the AND multiplexer is the one taken.
C3_TiesGoToAnd ==
  \A f \in Frames :
    /\ \A j \in DOMAIN f.cands :
         LET c == f.cands[j]
         IN (c.and_ok /\ c.or_ok /\ c.n_and = c.n_or) => c.and
    /\ (f.pc = "ret" /\ f.phase = 6 /\ f.ret # NO_GATE)
         => f.st.num_gates =
              Min({f.cands[j].n_and : j \in {i \in DOMAIN f.cands : f.cands[i].and_ok}}
                  \cup {f.cands[j].n_or : j \in {i \in DOMAIN f.cands : f.cands[i].or_ok}})

\* C3 as amended: at a bit where both multiplexers are built the AND one is
\* taken only if it has strictly fewer gates (on equal num_gates the OR one
\* is taken); the candidate taken at a bit replaces best only if it is
\* strictly smaller than those of all lower bits, so best has the smallest
\* num_gates of the candidates taken and, among equals, is that of the lowest
\* bit; and the state that replaces the caller's state is best.
C3_SelectionRule ==
  \A f \in Frames :
    /\ \A j \in DOMAIN f.cands :
         LET c == f.cands[j]
         IN /\ (c.and_ok /\ c.or_ok) => (c.and <=> c.n_and < c.n_or)
            /\ c.n = IF c.and THEN c.n_and ELSE c.n_or
            /\ c.kept <=> \A i \in 1 .. (j - 1) : f.cands[i].n > c.n
            /\ \A i \in 1 .. (j - 1) : f.cands[i].bit < c.bit
    /\ InSplitLoop(f)
         => f.best.num_gates = IF f.cands = <<>> THEN 0 ELSE Min(CandSizes(f))
    /\ (f.pc = "ret" /\ f.phase = 6)
         => IF f.cands = <<>>
            THEN f.ret = NO_GATE /\ f.st = f.st0
            ELSE /\ f.st = f.best
                 /\ f.st.num_gates = Min(CandSizes(f))
                 /\ f.ret = f.st.num_gates - 1

\* C3's case: a split returned after both multiplexers of one bit were built
\* with equal num_gates, and after two bits gave candidates of equal size.
C3_Witness ==
  \E f \in Frames :
    /\ f.pc = "ret" /\ f.phase = 6 /\ f.ret # NO_GATE
    /\ \E j \in DOMAIN f.cands :
         f.cands[j].and_ok /\ f.cands[j].or_ok /\ f.cands[j].n_and = f.cands[j].n_or
    /\ \E i, j \in DOMAIN f.cands :
         i < j /\ f.cands[i].kept /\ f.cands[i].n = f.cands[j].n
              /\ f.cands[i].n = f.st.num_gates

(***************************************************************************)
(* C7.  What a phase can match is stated here on the masked tables of the  *)
(* gates the call started with, without the scans.                         *)
(***************************************************************************)
EntryGates(f) == 0 .. (f.st0.num_gates - 1)

MTable(f, i) == f.st0.gates[i].table \cap f.mask

MTarget(f) == f.target \cap f.mask

SymDiff(a, b) == (a \ b) \cup (b \ a)

TwoInput(a, b) == {a \cap b, a \cup b, SymDiff(a, b)}

Matches1(f) == {i \in EntryGates(f) : MTable(f, i) = MTarget(f)}

Matches2(f) == {i \in EntryGates(f) : f.mask \ MTable(f, i) = MTarget(f)}

Matches3(f) ==
  \E i, k \in EntryGates(f) : i # k /\ MTarget(f) \in TwoInput(MTable(f, i), MTable(f, k))

Matches4(f) ==
  \E i, k \in EntryGates(f) :
    /\ i # k
    /\ MTarget(f) \in {f.mask \ x : x \in TwoInput(MTable(f, i), MTable(f, k))}
                      \cup {(f.mask \ MTable(f, i)) \cup MTable(f, k),
                            (f.mask \ MTable(f, i)) \cap MTable(f, k)}

Matches5(f) ==
  \E i, k, m \in EntryGates(f) :
    /\ i # k /\ i # m /\ k # m
    /\ \E x \in TwoInput(MTable(f, i), MTable(f, k)) : MTarget(f) \in TwoInput(x, MTable(f, m))

\* Whether some circuit of at most two new gates over the gates at entry,
\* of any shape and with any choice of inputs, has the target's masked table.
OneGate(T, mask) ==
  {mask \ a : a \in T} \cup UNION {TwoInput(a, b) : a \in T, b \in T}

WithinTwoGates(f) ==
  LET T == {MTable(f, i) : i \in EntryGates(f)}
      G == OneGate(T, f.mask)
  IN \/ MTarget(f) \in T \cup G
     \/ \E g \in G : MTarget(f) \in {f.mask \ g} \cup UNION {TwoInput(g, a) : a \in T \cup {g}}

\* The phase a call is in: 1..5 for the scans, 6 for the Shannon split.
PhaseAt(f) ==
  CASE f.pc = "p1" -> 1 [] f.pc = "p2" -> 2 [] f.pc = "p3" -> 3
    [] f.pc = "p4" -> 4 [] f.pc = "p5" -> 5 [] f.pc = "ret" -> f.phase
    [] OTHER -> 6

MatchesAt(f, k) ==
  CASE k = 1 -> Matches1(f) # {}
    [] k = 2 -> Matches2(f) # {}
    [] k = 3 -> Matches3(f)
    [] k = 4 -> Matches4(f)
    [] k = 5 -> Matches5(f)
    [] OTHER -> FALSE

\* C7: a call is in phase k, or has returned from it, only if no earlier
\* phase matches; it returns from a scan phase only on a match of that phase;
\* a return of phase 1 leaves the state unchanged and gives the smallest
\* matching index; and the Shannon split is entered only when no circuit of
\* at most two new gates over the existing gates matches the target under
\* the mask.  (Stated of the innermost call at each of its steps.)
C7_PhaseOrder ==
  (Running /\ Top.pc \in {"p1", "p2", "p3", "p4", "p5", "split", "ret"}) =>
    /\ \A k \in 1 .. (PhaseAt(Top) - 1) : ~MatchesAt(Top, k)
    /\ (Top.pc = "ret" /\ Top.phase <= 5) => MatchesAt(Top, Top.phase)
    /\ (Top.pc = "ret" /\ Top.phase = 1)
         => Top.st = Top.st0 /\ Top.ret = Min(Matches1(Top))
    /\ Matches1(Top) # {} => Top.pc = "p1" \/ (Top.pc = "ret" /\ Top.phase = 1)
    /\ Top.pc = "split" => ~WithinTwoGates(Top)

\* C7's case: a call entered the Shannon split, and a call whose target an
\* existing gate other than gate 0 matches returned in phase 1.
C7_Witness ==
  /\ Returned /\ Top.phase = 1 /\ Top.ret > 0
  /\ Cardinality(Matches1(Top)) >= 2
  /\ Depth >= 2 /\ Caller.pc = "fc"

\* C8: during a run max_gates of default_state never increases; once an
\* output has been synthesized it equals the num_gates of the last state
\* synthesized; and of two outputs synthesized in the same run the later has
\* at most the num_gates of the earlier.
C8_BudgetTightens ==
  [][/\ InRun => default_state'.max_gates <= default_state.max_gates
     /\ hist' # <<>> => default_state'.max_gates = hist'[Len(hist')]
     /\ \A i, j \in DOMAIN hist' : i < j => hist'[j] <= hist'[i]]_vars

\* C8's case: two outputs synthesized in one run, the later with fewer gates.
C8_Witness == Len(hist) >= 2 /\ hist[2] < hist[1] /\ default_state.max_gates = hist[2]

\* C9: a chained composer whose intermediate result is NO_GATE returns
\* NO_GATE, and no add_*_gate function reads the table of a gate at an index
\* that is not below num_gates (NO_GATE in particular).
C9_NoReadAtNoGate ==
  /\ \A r \in reads : r.by = "add" => r.idx \in 0 .. (r.n - 1)
  /\ (\E r \in reads : r.by = "add" /\ r.idx = NO_GATE)
       => /\ Running
          /\ \/ Top.pc = "ret" /\ Top.ret = NO_GATE
             \/ Top.pc = "or" /\ Top.mux_out_and = NO_GATE
             \/ Top.pc = "sel" /\ Top.mux_out_or = NO_GATE

\* C10 as claimed: a call that returns NO_GATE leaves the state it was given
\* as it was at entry.
C10_FailureLeavesStateUnchanged ==
  \A f \in Frames : (f.pc = "ret" /\ f.ret = NO_GATE) => f.st = f.st0

\* C10 as amended: a call that returns NO_GATE leaves every gate that
\* existed at entry, max_gates and outputs as they were, and num_gates either
\* unchanged or, when the second gate of a two-gate construction of phases 4
\* or 5 was refused, larger by one and equal to max_gates (the first gate of
\* the construction stays appended); a failure of phases 2 or 3 or of every
\* Shannon-split candidate leaves the state unchanged.
C10_FailureKeepsEntryGates ==
  \A f \in Frames :
    (f.pc = "ret" /\ f.ret = NO_GATE) =>
      /\ f.phase \in 2 .. 6
      /\ f.st.max_gates = f.st0.max_gates
      /\ f.st.outputs = f.st0.outputs
      /\ \A i \in 0 .. (f.st0.num_gates - 1) : f.st.gates[i] = f.st0.gates[i]
      /\ \/ f.st = f.st0
         \/ /\ f.phase \in {4, 5}
            /\ f.st.num_gates = f.st0.num_gates + 1
            /\ f.st.num_gates = f.st.max_gates
            /\ DOMAIN f.st.gates = 0 .. f.st0.num_gates

\* C10's case: a call returned NO_GATE from phase 4 or 5 with the first gate
\* of its refused two-gate construction appended to the caller's state.
C10_Witness ==
  /\ Returned /\ Top.ret = NO_GATE /\ Top.phase \in {4, 5}
  /\ Top.st.num_gates = Top.st0.num_gates + 1
  /\ Top.st.gates[Top.st0.num_gates].type \in {"NOT", "AND", "OR", "XOR"}

\* C11: when fd returns NO_GATE the OR candidate mux_out_or is NO_GATE; so a
\* bit at which neither multiplexer was built is skipped and gives no
\* candidate, and the selection and its assertion (lines 410-417) read no
\* gate at an index that is not below num_gates of the state selected.
C11_FailedOrBranchIsNoGate ==
  /\ \A f \in Frames : (f.pc = "sel" /\ f.fd = NO_GATE) => f.mux_out_or = NO_GATE
  /\ \A f \in Frames : \A j \in DOMAIN f.cands :
       /\ f.cands[j].and_ok \/ f.cands[j].or_ok
       /\ ~f.cands[j].and => f.cands[j].or_ok
  /\ \A r \in reads : r.by = "select" => r.idx \in 0 .. (r.n - 1)

\* What C12 says of each state: the used bits of every call are distinct
\* input bits, one more than its caller's and at most MaxUsedBits; a call
\* with MaxUsedBits used bits is in phases 1 to 4 or has returned from one of
\* them, so no call is in the Shannon split with MaxUsedBits used bits and
\* the assertion of line 360 has not failed.
UsedBitsInOrder ==
  /\ Depth <= MaxUsedBits + 1
  /\ \A d \in 1 .. Depth :
       LET f == stack[d]
       IN /\ Len(f.inbits) = d - 1
          /\ \A i \in DOMAIN f.inbits : f.inbits[i] \in Bits
          /\ \A i, j \in DOMAIN f.inbits : i # j => f.inbits[i] # f.inbits[j]
          /\ d > 1 => f.inbits = Append(stack[d - 1].inbits, stack[d - 1].bit)
          /\ Len(f.inbits) = MaxUsedBits
               => /\ f.pc \in {"p1", "p2", "p3", "p4", "ret"}
                  /\ f.pc = "ret" => f.phase \in 1 .. 4
          /\ (f.pc = "split" \/ InSplitLoop(f) \/ (f.pc = "ret" /\ f.phase = 6))
               => Len(f.inbits) < MaxUsedBits
  /\ ~(dpc = "abort" /\ Depth >= 1 /\ Top.pc = "split")

\* How far a call has come: the phases in order, then the steps of the
\* Shannon split bit by bit, then the return.
CallProgress(f) ==
  CASE f.pc = "p1" -> 0 [] f.pc = "p2" -> 1 [] f.pc = "p3" -> 2
    [] f.pc = "p4" -> 3 [] f.pc = "p5" -> 4 [] f.pc = "split" -> 5
    [] f.pc = "bit" -> 6 + 7 * f.bit
    [] f.pc = "fb" -> 7 + 7 * f.bit
    [] f.pc = "fc" -> 8 + 7 * f.bit
    [] f.pc = "or" -> 9 + 7 * f.bit
    [] f.pc = "fd" -> 10 + 7 * f.bit
    [] f.pc = "fe" -> 11 + 7 * f.bit
    [] f.pc = "sel" -> 12 + 7 * f.bit
    [] OTHER -> 7 + 7 * NumBits

ProgressBase == 8 + 7 * NumBits

\* The progress of the calls on the stack, outermost first, as the digits
\* of a number: the order of these numbers is the lexicographic order.
RECURSIVE StackProgress(_)
StackProgress(d) ==
  IF d > MaxUsedBits + 1 THEN 0
  ELSE (IF d <= Depth THEN CallProgress(stack[d]) ELSE 0)
         * ProgressBase ^ (MaxUsedBits + 1 - d)
       + StackProgress(d + 1)

\* C12: from the driver's call on, every call with MaxUsedBits distinct used
\* bits returns from phases 1 to 4, the Shannon split is never entered with
\* MaxUsedBits used bits (the assertion bitp < 6 never fails), no recursion
\* path splits on more than MaxUsedBits bits or on the same bit twice, and
\* every call terminates: each step of a running synthesis raises the
\* bounded progress of the call stack, so none runs forever.
C12_SplitsWithinUsedBits ==
  /\ []UsedBitsInOrder
  /\ [][(dpc = "call" /\ dpc' = "call" /\ Depth >= 1)
          => /\ StackProgress(1)' > StackProgress(1)
             /\ StackProgress(1)' < ProgressBase ^ (MaxUsedBits + 1)]_vars

\* C12's case: a call with MaxUsedBits used bits, its mask leaving two input
\* bits free, found no gate and no inverse to reuse and returned a
\* construction of phase 4.
C12_Witness ==
  /\ Returned /\ Len(Top.inbits) = MaxUsedBits
  /\ Cardinality(Top.mask) = 4
  /\ Top.phase = 4 /\ Top.ret # NO_GATE

====
